---------------------------- MODULE Spec2Model ----------------------------
(***************************************************************************)
(* stick_ants (src/src/main.rs): ants walk on a rod, the vector of ants is  *)
(* re-sorted by position after every step while the types keep their       *)
(* place, and the ants that have fallen off either end are removed.         *)
(*                                                                          *)
(* f32 is modelled as a binary floating-point format with round-to-nearest, *)
(* ties-to-even, scaled down to PrecBits bits of significand (f32 has 24).  *)
(* A float is the integer number of units it holds, the unit being the      *)
(* spacing of the floats just below 0.5; 1.0 is One units.  NaN and the     *)
(* two infinities are three integers outside the finite range.              *)
(***************************************************************************)
EXTENDS Integers, Sequences, FiniteSets, TLC

(***************************************************************************)
(* Bounds of the model.                                                     *)
(***************************************************************************)
\* bits of significand of the scaled-down float format
PrecBits == 3
\* largest ant count whose random placements are enumerated
MaxAnts == 2
\* largest ant count simulated in regular mode
MaxRegularAnts == 11
\* step sizes given with -s: the floats of -1 .. MaxStep units
MaxStep == 3
\* largest molly index given with -m
MaxMolly == 1
\* largest resolution given with -r
MaxResolution == 1
\* largest number of ants of the states step is applied to on its own
MaxStepAnts == 3
\* number of cells drawn into for the states step is applied to
MaxCells == 2

(***************************************************************************)
(* f32                                                                      *)
(***************************************************************************)
Pow2(n) == 2 ^ n

\* 1.0
One == Pow2(PrecBits + 1)
\* f32::INFINITY, f32::NEG_INFINITY, f32::NAN
PInf == One * One * 4
NInf == 0 - PInf
NaN == 2 * PInf

IsNaN(x) == x = NaN
IsInf(x) == x = PInf \/ x = NInf
IsFinite(x) == ~IsNaN(x) /\ ~IsInf(x)

Abs(x) == IF x < 0 THEN 0 - x ELSE x

\* the spacing q (a power of two, at least q) of the floats around n/d >= 0
RECURSIVE Ulp(_, _, _)
Ulp(n, d, q) == IF n < Pow2(PrecBits) * q * d THEN q ELSE Ulp(n, d, 2 * q)

\* the float nearest to the rational n/d >= 0, ties to the even significand
RoundRat(n, d) ==
    LET q == Ulp(n, d, 1)
        k == n \div (d * q)
        rem == n - k * d * q
    IN  IF 2 * rem < d * q THEN k * q
        ELSE IF 2 * rem > d * q THEN (k + 1) * q
        ELSE IF k % 2 = 0 THEN k * q ELSE (k + 1) * q

\* the float nearest to the integer number of units v
Round(v) == IF v < 0 THEN 0 - RoundRat(0 - v, 1) ELSE RoundRat(v, 1)

\* a + b on f32
FAdd(a, b) ==
    IF IsNaN(a) \/ IsNaN(b) THEN NaN
    ELSE IF IsInf(a) THEN (IF IsInf(b) /\ a # b THEN NaN ELSE a)
    ELSE IF IsInf(b) THEN b
    ELSE Round(a + b)

\* a * b on f32
FMul(a, b) ==
    IF IsNaN(a) \/ IsNaN(b) THEN NaN
    ELSE IF IsInf(a) \/ IsInf(b)
         THEN (IF a = 0 \/ b = 0 THEN NaN
               ELSE IF (a < 0) = (b < 0) THEN PInf ELSE NInf)
    ELSE IF (a < 0) = (b < 0) THEN RoundRat(Abs(a) * Abs(b), One)
         ELSE 0 - RoundRat(Abs(a) * Abs(b), One)

\* a / b on f32, both finite, b nonzero
FDiv(a, b) ==
    IF (a < 0) = (b < 0) THEN RoundRat(Abs(a) * One, Abs(b))
    ELSE 0 - RoundRat(Abs(a) * One, Abs(b))

\* a >= b, a < b on f32: false when either side is NaN
FGe(a, b) == ~IsNaN(a) /\ ~IsNaN(b) /\ a >= b
FLt(a, b) == ~IsNaN(a) /\ ~IsNaN(b) /\ a < b

\* n as f32
UsizeAsF32(n) == Round(n * One)

\* x as usize: truncates, saturates, NaN gives 0
F32AsUsize(x) ==
    IF IsNaN(x) \/ x < 0 THEN 0 ELSE x \div One

\* the floats k units for k in lo..hi that the format holds
Floats(lo, hi) == {v \in lo..hi : Round(v) = v}

(***************************************************************************)
(* Args                                                                     *)
(***************************************************************************)
\* usize::MAX, the molly index that stands for "not given"
UsizeMax == 2147483647
\* Args::new's defaults; 0.001 is no float of the scaled-down format and is
\* kept as a value of its own
DefaultCount == 25
DefaultStep == 3 * PInf
FallbackWidth == 100

\* the values a flag's argument is given: Junk does not parse, Missing is the
\* end of the argument list
Junk == 4 * PInf
Missing == 5 * PInf
CountValues == 0..MaxRegularAnts
MollyValues == (0..MaxMolly) \cup {UsizeMax}
StepValues == Floats(0 - 1, MaxStep) \cup {PInf, NInf, NaN}
ResolutionValues == 1..MaxResolution

Flags == {"count", "molly", "speed", "delta", "regular", "resolution",
          "help", "invalid"}

\* the argument lists followed: every flag, with every value of its set
FlagValues(f) ==
    CASE f = "count" -> CountValues \cup {Junk, Missing}
      [] f = "molly" -> MollyValues \cup {Junk, Missing}
      [] f = "speed" -> StepValues \cup {Junk, Missing}
      [] f = "delta" -> {0, Junk, Missing}
      [] f = "resolution" -> ResolutionValues \cup {Junk, Missing}
      [] OTHER -> {Missing}

ArgsDefault(width) ==
    [ant_count |-> DefaultCount, molly_index |-> UsizeMax,
     ant_step |-> DefaultStep, regular |-> FALSE, resolution |-> width,
     start |-> TRUE]

\* one turn of Args::new's loop on flag f followed by v: whether it returns
\* Err (an invalid argument, a missing or an unparsable value), and the new res
ArgsOptionErr(f, v) ==
    \/ f = "invalid"
    \/ f \in {"count", "molly", "speed", "delta", "resolution"}
          /\ v \in {Missing, Junk}

ArgsOption(res, f, v) ==
    CASE f = "count" -> [res EXCEPT !.ant_count = v]
      [] f = "molly" -> [res EXCEPT !.molly_index = v]
      [] f = "speed" -> [res EXCEPT !.ant_step = v]
      [] f = "regular" -> [res EXCEPT !.regular = TRUE]
      [] f = "resolution" -> [res EXCEPT !.resolution = v]
      [] f = "help" -> [res EXCEPT !.start = FALSE]
      [] OTHER -> res

\* what Args::new does once the arguments are read
ArgsDefaultMolly(res) ==
    IF res.molly_index = UsizeMax
    THEN [res EXCEPT !.molly_index = res.ant_count \div 2]
    ELSE res

ArgsValid(res) == ~(res.molly_index >= res.ant_count)

(***************************************************************************)
(* Ant, AntType                                                             *)
(***************************************************************************)
AntType == {"None", "Some", "Molly"}

Ant(p, s, t) == [position |-> p, speed |-> s, typ |-> t]

\* gen_range(0.0..1.): 2^(PrecBits-1) equally spaced floats from 0.0 up
RandPositions ==
    {k * (One \div Pow2(PrecBits - 1)) : k \in 0..(Pow2(PrecBits - 1) - 1)}

\* Ant::default()
AntDefault == {Ant(p, s, "Some") : p \in RandPositions, s \in {One, 0 - One}}

\* AntType::set
TypSet(self, other) ==
    IF self = "Molly" /\ other = "Some" THEN self ELSE other

(***************************************************************************)
(* sort_by(|a, b| a.position.partial_cmp(&b.position).unwrap_or(Equal))     *)
(***************************************************************************)
Cmp(a, b) ==
    IF IsNaN(a.position) \/ IsNaN(b.position) THEN "Equal"
    ELSE IF a.position < b.position THEN "Less"
    ELSE IF a.position > b.position THEN "Greater"
    ELSE "Equal"

\* a put into the sorted s behind everything that is not greater
RECURSIVE Insert(_, _)
Insert(s, a) ==
    IF s = <<>> THEN <<a>>
    ELSE IF Cmp(s[Len(s)], a) = "Greater"
         THEN Append(Insert(SubSeq(s, 1, Len(s) - 1), a), s[Len(s)])
         ELSE Append(s, a)

\* the stable sort
RECURSIVE SortBy(_)
SortBy(s) ==
    IF s = <<>> THEN <<>>
    ELSE Insert(SortBy(SubSeq(s, 1, Len(s) - 1)), s[Len(s)])

(***************************************************************************)
(* AntRod::from_args                                                        *)
(***************************************************************************)
\* dis = 1. / (args.ant_count as f32 + 1.)
Dis(n) == FDiv(One, FAdd(UsizeAsF32(n), One))

\* dis * i as f32 + dis
RegularPosition(n, i) == FAdd(FMul(Dis(n), UsizeAsF32(i)), Dis(n))

\* the ants of regular mode: index i of the vector is i + 1 of the sequence
RegularAnts(n) ==
    [j \in 1..n |->
        IF j - 1 < n \div 2 THEN Ant(RegularPosition(n, j - 1), One, "Some")
        ELSE IF j - 1 = n \div 2 THEN Ant(One \div 2, One, "Molly")
        ELSE Ant(RegularPosition(n, j - 1), 0 - One, "Some")]

\* mutant: Molly is marked among the drawn ants, before the sort
RandomAnts_MarkedBeforeSort(drawn, molly_index) ==
    SortBy([drawn EXCEPT ![molly_index + 1].typ = "Molly"])

\* the ants of random mode: the drawn ants sorted, the one at molly_index
\* made Molly
RandomAnts(drawn, molly_index) ==
    [SortBy(drawn) EXCEPT ![molly_index + 1].typ = "Molly"]

(***************************************************************************)
(* AntRod::step                                                             *)
(***************************************************************************)
\* mutant: the speed, and with it the direction, is left out
Advance_NoSpeed(s, step) ==
    [i \in 1..Len(s) |-> [s[i] EXCEPT !.position = FAdd(@, step)]]

\* update positions
Advance(s, step) ==
    [i \in 1..Len(s) |->
        [s[i] EXCEPT !.position = FAdd(@, FMul(s[i].speed, step))]]

\* mutant: the types are not put back, each ant keeps its own
SortRetainTypes_Carried(s) == SortBy(s)

\* mutant: the speeds are put back with the types, each ant goes on in the
\* direction of the index it comes to
SortRetainTypes_AndSpeeds(s) ==
    LET sorted == SortBy(s)
    IN  [i \in 1..Len(s) |->
            [sorted[i] EXCEPT !.typ = s[i].typ, !.speed = s[i].speed]]

\* mutant: the types are put back with AntType::set, which keeps a Molly
SortRetainTypes_Set(s) ==
    LET sorted == SortBy(s)
    IN  [i \in 1..Len(s) |->
            [sorted[i] EXCEPT !.typ = TypSet(@, s[i].typ)]]

\* sort by position, but retain types
SortRetainTypes(s) ==
    LET sorted == SortBy(s)
    IN  [i \in 1..Len(s) |-> [sorted[i] EXCEPT !.typ = s[i].typ]]

\* mutant: an if for the while, one ant at most is removed from the end
PopFallen_Once(s) ==
    IF s # <<>> /\ FGe(s[Len(s)].position, One)
    THEN SubSeq(s, 1, Len(s) - 1)
    ELSE s

\* mutant: an ant at exactly 1.0 is not removed
RECURSIVE PopFallen_Strict(_)
PopFallen_Strict(s) ==
    IF s # <<>> /\ FLt(One, s[Len(s)].position)
    THEN PopFallen_Strict(SubSeq(s, 1, Len(s) - 1))
    ELSE s

\* remove from the end
RECURSIVE PopFallen(_)
PopFallen(s) ==
    IF s # <<>> /\ FGe(s[Len(s)].position, One)
    THEN PopFallen(SubSeq(s, 1, Len(s) - 1))
    ELSE s

\* iter().position(|a| a.position >= 0.).unwrap_or(len)
RECURSIVE FrontFallen(_, _)
FrontFallen(s, i) ==
    IF i >= Len(s) THEN Len(s)
    ELSE IF FGe(s[i + 1].position, 0) THEN i
    ELSE FrontFallen(s, i + 1)

\* mutant: nothing is removed from the front
DrainFallen_None(s) == s

\* remove from the front
DrainFallen(s) == SubSeq(s, FrontFallen(s, 0) + 1, Len(s))

StepAnts(s, step) == DrainFallen(PopFallen(SortRetainTypes(Advance(s, step))))

\* mutant: the negation is left out
HasAnts_IsEmpty(s) == s = <<>>

\* AntRod::has_ants
HasAnts(s) == s # <<>>

(***************************************************************************)
(* Drawer::draw                                                             *)
(***************************************************************************)
\* (a.position * self.ant_vec.len() as f32) as usize
Cell(a, len) == F32AsUsize(FMul(a.position, UsizeAsF32(len)))

\* the index of some ant is out of range: the indexing panics
DrawPanics(s, len) == \E i \in 1..Len(s) : Cell(s[i], len) >= len

\* the cells after the first i ants are set
RECURSIVE DrawCells(_, _, _)
DrawCells(s, len, i) ==
    IF i = 0 THEN [c \in 1..len |-> "None"]
    ELSE LET vec == DrawCells(s, len, i - 1)
             pos == Cell(s[i], len) + 1
         IN  [vec EXCEPT ![pos] = TypSet(@, s[i].typ)]

(***************************************************************************)
(* The reference the step is compared with: the ants stand on the rod in    *)
(* the order of their positions, each carries its own type and its own      *)
(* speed, and two ants that meet turn round instead of passing.  It is run  *)
(* beside the simulation, from the ants from_args returns and with the same *)
(* step size and the same f32 arithmetic; it is no part of main.            *)
(***************************************************************************)
\* ants i and i + 1 have met: after the advance the left one is past the
\* right one
RefMet(r, i) == FLt(r[i + 1].position, r[i].position)

\* the two turn round: each goes on where the other was heading, the types
\* stay with the ants
RefBounce(r, i) ==
    [r EXCEPT ![i].position = r[i + 1].position, ![i].speed = r[i + 1].speed,
              ![i + 1].position = r[i].position, ![i + 1].speed = r[i].speed]

RECURSIVE RefCollide(_)
RefCollide(r) ==
    IF \E i \in 1..(Len(r) - 1) : RefMet(r, i)
    THEN RefCollide(RefBounce(r,
             CHOOSE i \in 1..(Len(r) - 1) :
                 /\ RefMet(r, i)
                 /\ \A j \in 1..(i - 1) : ~RefMet(r, j)))
    ELSE r

\* an ant stays while its position is on the rod
RefOnRod(a) == FGe(a.position, 0) /\ FLt(a.position, One)

RefStep(r, step) == SelectSeq(RefCollide(Advance(r, step)), RefOnRod)

(***************************************************************************)
(* main                                                                     *)
(***************************************************************************)
VARIABLES
    pc,       \* where main is
    args,     \* Args::new's res, then main's args
    ants,     \* sim.ants
    ant_step, \* sim.ant_step
    ant_vec,  \* sim.drawer.ant_vec
    time,     \* sim.time
    frames,   \* the frames printed
    molly_arg, \* the value Args::new has read after -m, Missing when none
    ref_ants  \* the ants of the reflecting reference run beside sim

vars ==
    <<pc, args, ants, ant_step, ant_vec, time, frames, molly_arg, ref_ants>>

\* no run is followed for more steps than an ant that moves needs to leave
MaxTime == One + 4

\* the configurations whose simulation is followed
InBounds(a) ==
    /\ a.ant_count <= (IF a.regular THEN MaxRegularAnts ELSE MaxAnts)
    /\ a.ant_step \in StepValues
    /\ a.resolution \in ResolutionValues

Init ==
    /\ pc = "parse"
    /\ \E width \in ResolutionValues \cup {FallbackWidth} :
          args = ArgsDefault(width)
    /\ ants = <<>>
    /\ ant_step = 0
    /\ ant_vec = <<>>
    /\ time = 0
    /\ frames = 0
    /\ molly_arg = Missing
    /\ ref_ants = <<>>

\* Args::new reads one flag and its value; an invalid argument, a missing
\* value or one that does not parse is returned as the error
ParseOption ==
    /\ pc = "parse"
    /\ \E f \in Flags : \E v \in FlagValues(f) :
          IF ArgsOptionErr(f, v)
          THEN pc' = "err_argument" /\ args' = args
               /\ molly_arg' = molly_arg
          ELSE pc' = pc /\ args' = ArgsOption(args, f, v)
               /\ molly_arg' = IF f = "molly" THEN v ELSE molly_arg
    /\ UNCHANGED <<ants, ant_step, ant_vec, time, frames, ref_ants>>

\* the arguments are read: Args::new checks the molly index and returns, and
\* main goes on, returns the error ("Invalid molly index") or returns after
\* the help
ParseEnd ==
    /\ pc = "parse"
    /\ LET res == ArgsDefaultMolly(args)
       IN  IF ArgsValid(res)
           THEN /\ args' = res
                /\ pc' = IF res.start THEN "create" ELSE "exit"
           ELSE /\ args' = args
                /\ pc' = "err_molly_index"
    /\ molly_arg' = Missing
    /\ UNCHANGED <<ants, ant_step, ant_vec, time, frames, ref_ants>>

\* let mut sim = AntRod::from_args(&args)
FromArgs ==
    /\ pc = "create"
    /\ InBounds(args)
    /\ IF args.regular
       THEN ants' = RegularAnts(args.ant_count)
       ELSE \E drawn \in [1..args.ant_count -> AntDefault] :
               ants' = RandomAnts(drawn, args.molly_index)
    /\ ant_step' = args.ant_step
    /\ ant_vec' = [c \in 1..args.resolution |-> "None"]
    /\ time' = 0
    /\ pc' = "draw"
    /\ ref_ants' = SortBy(ants')
    /\ UNCHANGED <<args, frames, molly_arg>>

\* sim.draw(), and the test of the loop
Draw ==
    /\ pc = "draw"
    /\ IF DrawPanics(ants, Len(ant_vec))
       THEN /\ pc' = "panic"
            /\ UNCHANGED <<ant_vec, frames>>
       ELSE /\ ant_vec' = DrawCells(ants, Len(ant_vec), Len(ants))
            /\ frames' = frames + 1
            /\ pc' = IF HasAnts(ants) THEN "step" ELSE "done"
    /\ UNCHANGED <<args, ants, ant_step, time, molly_arg, ref_ants>>

\* sim.step()
Step ==
    /\ pc = "step"
    /\ time < MaxTime
    /\ ants' = StepAnts(ants, ant_step)
    /\ time' = time + 1
    /\ pc' = "draw"
    /\ ref_ants' = RefStep(ref_ants, ant_step)
    /\ UNCHANGED <<args, ant_step, ant_vec, frames, molly_arg>>

Next == ParseOption \/ ParseEnd \/ FromArgs \/ Draw \/ Step

Spec == Init /\ [][Next]_vars

(***************************************************************************)
(* AntRod::step on its own: applied once to every vector of at most         *)
(* MaxStepAnts ants that is ordered by position, has at most one Molly and  *)
(* holds positions of the rod, the empty vector included, whether or not    *)
(* main reaches it.                                                         *)
(***************************************************************************)
\* the positions from which an ant can leave within a tick, and the middle
StepPositions ==
    {p \in Floats(0, One - 1) :
        p <= MaxStep \/ p >= One - MaxStep - 1 \/ p = One \div 2}

StepAntsOf(n) ==
    {s \in [1..n -> {Ant(p, v, t) : p \in StepPositions, v \in {One, 0 - One},
                                    t \in {"Some", "Molly"}}] :
        /\ \A i \in 1..(n - 1) : s[i].position <= s[i + 1].position
        /\ Cardinality({i \in 1..n : s[i].typ = "Molly"}) <= 1}

\* the simulation holds s, drawn last into MaxCells cells, and is to be
\* stepped
StepInit ==
    \E n \in 0..MaxStepAnts : \E s \in StepAntsOf(n) : \E step \in StepValues :
    \E len \in {MaxCells} :
        /\ pc = "step"
        /\ args = [ArgsDefault(len) EXCEPT !.ant_count = n, !.ant_step = step]
        /\ ants = s
        /\ ant_step = step
        /\ ~DrawPanics(s, len)
        /\ ant_vec = DrawCells(s, len, n)
        /\ time = 0
        /\ frames = 1
        /\ molly_arg = Missing
        /\ ref_ants = s

StepNext == Step

StepSpec == StepInit /\ [][StepNext]_vars

(***************************************************************************)
(* What the claims speak of                                                 *)
(***************************************************************************)
\* main holds a simulation
Created == pc \in {"draw", "step", "done", "panic"}
\* from_args has just returned
JustCreated == pc = "draw" /\ frames = 0
\* a step has just returned
JustStepped == pc = "draw" /\ time > 0

IsSorted(s) ==
    \A i \in 1..(Len(s) - 1) : FGe(s[i + 1].position, s[i].position)

MollyCount(s) == Cardinality({i \in 1..Len(s) : s[i].typ = "Molly"})

\* on the segment: 0 <= p < 1
OnRod(p) == FGe(p, 0) /\ FLt(p, One)

\* the ants of s that are at p with speed v
CountAt(s, p, v) ==
    Cardinality({i \in 1..Len(s) : s[i].position = p /\ s[i].speed = v})

(***************************************************************************)
(* C1: in every state produced by from_args (either mode, any ant count)    *)
(* and in every state reached from it by steps, the ants are non-decreasing *)
(* by position.                                                             *)
(***************************************************************************)
C1_SortedByPosition == Created => IsSorted(ants)

\* C1, what holds: the ants are sorted in every state a step leaves and in
\* every state from_args produces in random mode
C1_SortedAfterStepOrRandom ==
    Created /\ (time > 0 \/ ~args.regular) => IsSorted(ants)

(***************************************************************************)
(* C2: in every state the number of ants of type Molly is 0 or 1, and a     *)
(* step never increases it.                                                 *)
(***************************************************************************)
C2_SingleMolly ==
    [][/\ MollyCount(ants) <= 1
       /\ MollyCount(ants') <= 1
       /\ pc = "step" => MollyCount(ants') <= MollyCount(ants)]_vars

\* steps have been made, ants remain and Molly has fallen
C2_Witness == JustStepped /\ time >= 2 /\ HasAnts(ants) /\ MollyCount(ants) = 0

(***************************************************************************)
(* C3: as long as any ant remains, exactly one ant is Molly.                *)
(***************************************************************************)
C3_MollyWhileAntsRemain == Created /\ HasAnts(ants) => MollyCount(ants) = 1

(***************************************************************************)
(* C3, amended: a step from a state with one Molly leaves one Molly when    *)
(* the position that takes Molly's place in the sorted vector is on the     *)
(* rod, and none when it is not, whether or not other ants remain; a step   *)
(* from a state without Molly leaves none.                                  *)
(***************************************************************************)
MollyIndex(s) == CHOOSE i \in 1..Len(s) : s[i].typ = "Molly"

C3_MollyUntilHerPlaceFalls ==
    [][pc = "step" =>
        LET moved == SortBy(Advance(ants, ant_step))
        IN  MollyCount(ants') =
              IF /\ MollyCount(ants) = 1
                 /\ OnRod(moved[MollyIndex(ants)].position)
              THEN 1 ELSE 0]_vars

\* Molly is still there after a step that removed other ants
C3_Witness ==
    JustStepped /\ MollyCount(ants) = 1 /\ Len(ants) < args.ant_count

(***************************************************************************)
(* C4: with a positive step size, repeated steps reach the empty vector.    *)
(* A step is a function of the ants and the step size alone, so the empty   *)
(* vector is reached only if no step leaves a non-empty vector as it found  *)
(* it: every step with a positive step size changes the ants.               *)
(***************************************************************************)
C4_StepsReachEmpty ==
    [][pc = "step" /\ FLt(0, ant_step) => ants' # ants]_vars

(***************************************************************************)
(* C5: a step removes an ant if and only if its position after the advance  *)
(* is >= 1 or < 0: what a step leaves is the sorted, advanced vector        *)
(* without the ants at such positions.                                      *)
(***************************************************************************)
Outside(p) == FGe(p, One) \/ FLt(p, 0)

KeptInside(a) == ~Outside(a.position)

C5_RemovedIffOutside ==
    [][pc = "step" =>
        LET moved == SortBy(Advance(ants, ant_step))
            kept == SelectSeq(moved, KeptInside)
        IN  /\ Len(ants') = Len(kept)
            /\ \A i \in 1..Len(kept) :
                  /\ ants'[i].position = kept[i].position
                  /\ ants'[i].speed = kept[i].speed]_vars

\* C5, what holds: the same for every step size that is not NaN
C5_RemovedIffOutsideUnlessNaN ==
    [][pc = "step" /\ ~IsNaN(ant_step) =>
        LET moved == SortBy(Advance(ants, ant_step))
            kept == SelectSeq(moved, KeptInside)
        IN  /\ Len(ants') = Len(kept)
            /\ \A i \in 1..Len(kept) :
                  /\ ants'[i].position = kept[i].position
                  /\ ants'[i].speed = kept[i].speed]_vars

(***************************************************************************)
(* C6: between ticks every position is strictly inside the segment,         *)
(* 0 < position < 1.                                                        *)
(***************************************************************************)
C6_StrictlyInside ==
    Created =>
        \A i \in 1..Len(ants) :
            FLt(0, ants[i].position) /\ FLt(ants[i].position, One)

(***************************************************************************)
(* C6, amended: between ticks every position p has 0 <= p <= 1; p < 1 in    *)
(* every state a step leaves and in every state from_args produces in       *)
(* random mode.  The lower end 0 itself is kept.                            *)
(***************************************************************************)
C6_OnRodBetweenTicks ==
    Created =>
        \A i \in 1..Len(ants) :
            /\ FGe(ants[i].position, 0)
            /\ FGe(One, ants[i].position)
            /\ (time > 0 \/ ~args.regular) => FLt(ants[i].position, One)

\* a step has left an ant at the lower end
C6_Witness ==
    JustStepped /\ \E i \in 1..Len(ants) : ants[i].position = 0

(***************************************************************************)
(* C7: a step never grows the vector and creates no ant: the ants it leaves *)
(* are ants it found, each advanced by its own speed times the step size.   *)
(***************************************************************************)
C7_NeverGrows ==
    [][pc = "step" =>
        /\ Len(ants') <= Len(ants)
        /\ \A i \in 1..Len(ants') :
              LET p == ants'[i].position
                  v == ants'[i].speed
              IN  CountAt(ants', p, v) <=
                    Cardinality({j \in 1..Len(ants) :
                        /\ ants[j].speed = v
                        /\ FAdd(ants[j].position, FMul(v, ant_step)) = p})
      ]_vars

\* the first step has removed ants and left others
C7_Witness ==
    JustStepped /\ time = 1 /\ HasAnts(ants) /\ Len(ants) < args.ant_count

(***************************************************************************)
(* C8: in regular mode every ant, the one that is Molly included, is at the *)
(* place the even spacing gives its index i, (i+1)/(N+1): computed in f32   *)
(* as from_args computes it, dis * i + dis with dis = 1/(N+1).              *)
(***************************************************************************)
C8_EvenlySpaced ==
    JustCreated /\ args.regular =>
        \A j \in 1..Len(ants) :
            ants[j].position = RegularPosition(args.ant_count, j - 1)

(***************************************************************************)
(* C9: from_args returns N ants, time 0 and one Molly, the ant at index     *)
(* molly_index of the sorted vector in random mode (N/2 when no index is    *)
(* given) and the ant at index N/2 in regular mode; every other ant is of   *)
(* type Some.                                                               *)
(***************************************************************************)
C9_FromArgsState ==
    [][/\ pc = "parse" /\ pc' = "create" /\ args.molly_index = UsizeMax
            => args'.molly_index = args.ant_count \div 2
       /\ pc = "create" /\ pc' = "draw" =>
            LET m == IF args.regular THEN args.ant_count \div 2
                     ELSE args.molly_index
            IN  /\ Len(ants') = args.ant_count
                /\ time' = 0
                /\ ~args.regular => IsSorted(ants')
                /\ \A i \in 1..Len(ants') :
                      ants'[i].typ = IF i = m + 1 THEN "Molly" ELSE "Some"
      ]_vars

\* random mode with a molly index that is not the default
C9_Witness ==
    /\ JustCreated /\ ~args.regular
    /\ args.ant_count = 2 /\ args.molly_index = 0
    /\ ants[1].typ = "Molly" /\ ants[1].position < ants[2].position

(***************************************************************************)
(* C10: with an ant count of 0 and no molly index given, Args::new does not *)
(* fail: main is never left with the "Invalid molly index" error.           *)
(***************************************************************************)
C10_ZeroAntsStart ==
    args.ant_count = 0 /\ args.molly_index = UsizeMax
        => pc # "err_molly_index"

(***************************************************************************)
(* C11: when the value given with -m is >= the ant count, whatever the      *)
(* value, the mode and the order of the flags, Args::new does not return    *)
(* Ok: it reads on or returns Err, and Err ends main, so that from_args is  *)
(* not called and nothing is drawn or stepped.                              *)
(***************************************************************************)
\* Args::new is still reading, or has returned Err
NotInitialized == pc \in {"parse", "err_argument", "err_molly_index"}

C11_MollyIndexRejected ==
    [][pc = "parse" /\ molly_arg # Missing /\ molly_arg >= args.ant_count
          => NotInitialized']_vars

\* C11, what holds: the same for every value given with -m but usize::MAX,
\* which Args::new takes for "no index given"
C11_MollyIndexRejectedUnlessMax ==
    [][(/\ pc = "parse" /\ molly_arg # Missing /\ molly_arg # UsizeMax
        /\ molly_arg >= args.ant_count)
          => NotInitialized']_vars

(***************************************************************************)
(* C12: a step size that is zero or negative is rejected by Args::new: main *)
(* never holds a simulation whose ant_step is <= 0.                         *)
(***************************************************************************)
C12_NonPositiveStepRejected == Created => ~FGe(0, ant_step)

(***************************************************************************)
(* C13: run from the ants from_args returns with the same step size, the    *)
(* simulation and the reflecting reference have after every tick the same   *)
(* positions, each as many times, both have Molly or both have lost her,    *)
(* and Molly is at the same position in both.  Stated for the step sizes    *)
(* the simulation is meant for, the positive ones.                          *)
(***************************************************************************)
PositionsOf(s) == {s[i].position : i \in 1..Len(s)}

TimesAt(s, p) == Cardinality({i \in 1..Len(s) : s[i].position = p})

Agree(s, r) ==
    /\ Len(s) = Len(r)
    /\ \A p \in PositionsOf(s) \cup PositionsOf(r) :
          TimesAt(s, p) = TimesAt(r, p)
    /\ MollyCount(s) = MollyCount(r)
    /\ MollyCount(s) = 1 =>
          s[MollyIndex(s)].position = r[MollyIndex(r)].position

C13_AgreesWithReflection ==
    JustStepped /\ FLt(0, ant_step) => Agree(ants, ref_ants)

\* C13, what holds: the two agree, for every step size, when the ants
\* from_args returned were ordered by position
C13_AgreesWithReflectionWhenSorted ==
    JustStepped /\ (~args.regular \/ IsSorted(RegularAnts(args.ant_count)))
        => Agree(ants, ref_ants)

(***************************************************************************)
(* C14: step completes on every vector that is ordered by position, the     *)
(* empty one and those whose ants all leave, on one end or on both,         *)
(* included: the ants are popped from a vector that holds them, the range   *)
(* drained lies in the vector, the time is counted, and what is left is     *)
(* ordered by position, holds at most one Molly and only positions on the   *)
(* rod.                                                                     *)
(***************************************************************************)
DataModel(s) ==
    /\ IsSorted(s)
    /\ MollyCount(s) <= 1
    /\ \A i \in 1..Len(s) :
          /\ OnRod(s[i].position)
          /\ s[i].speed \in {One, 0 - One}
          /\ s[i].typ \in {"Some", "Molly"}

C14_StepTotal ==
    [][pc = "step" =>
        LET moved == SortRetainTypes(Advance(ants, ant_step))
            popped == PopFallen(moved)
            front == FrontFallen(popped, 0)
        IN  /\ Len(moved) = Len(ants)
            /\ Len(popped) \in 0..Len(moved)
            /\ front \in 0..Len(popped)
            /\ Len(ants') = Len(popped) - front
            /\ pc' = "draw" /\ time' = time + 1
            /\ DataModel(ants')]_vars

\* one tick of the smallest step has emptied a vector that held an ant in
\* the first cell and an ant in the last: ants have left on both ends
C14_Witness ==
    /\ pc = "draw" /\ time = 1 /\ ants = <<>> /\ ant_step = 1
    /\ Len(ant_vec) >= 2
    /\ ant_vec[1] # "None" /\ ant_vec[Len(ant_vec)] # "None"

(***************************************************************************)
(* C15: main calls from_args, then draw, then step and draw in turn while   *)
(* ants are left: from_args is followed by a draw, a step is made only on a *)
(* vector that holds ants and is followed by a draw, every step has had one *)
(* draw before it and one more is made after the last, a draw is followed   *)
(* by a step when ants are left and by the end of main when none is, and    *)
(* after the end nothing is done.                                           *)
(***************************************************************************)
C15_MainLoopOrder ==
    [][/\ pc = "create" => pc' = "draw" /\ time' = 0 /\ frames' = 0
       /\ pc = "step" =>
            /\ Len(ants) > 0
            /\ frames = time + 1
            /\ pc' = "draw" /\ time' = time + 1 /\ frames' = frames
       /\ pc = "draw" =>
            /\ frames = time
            /\ ants' = ants /\ time' = time
            /\ \/ pc' = "panic" /\ frames' = frames
               \/ pc' = "step" /\ Len(ants) > 0 /\ frames' = frames + 1
               \/ pc' = "done" /\ Len(ants) = 0 /\ frames' = frames + 1
       /\ pc \in {"done", "panic", "exit", "err_argument", "err_molly_index"}
            => FALSE
      ]_vars

\* main has ended after steps: the last draw showed an empty rod
C15_Witness == pc = "done" /\ time >= 2 /\ frames = time + 1 /\ ants = <<>>

(***************************************************************************)
(* C16: step is deterministic: stepped twice from the same state with the   *)
(* same step size it gives the same state.  Step is ants' = StepAnts(ants,  *)
(* ant_step): that two evaluations of it agree is true of any definition    *)
(* and is not stated.  What the claim says of ties is stated: the ants a    *)
(* step leaves at one position are, by their speeds, in the order in which  *)
(* the step found them.                                                     *)
(***************************************************************************)
SpeedsAt(s, p) ==
    LET at == SelectSeq(s, LAMBDA a : a.position = p)
    IN  [i \in 1..Len(at) |-> at[i].speed]

C16_TiesKeepOrder ==
    [][pc = "step" =>
        \A p \in PositionsOf(ants') :
            SpeedsAt(ants', p) = SpeedsAt(Advance(ants, ant_step), p)]_vars

(***************************************************************************)
(* C17: a step changes no speed: every speed is +1 or -1 before and after,  *)
(* the ants a step leaves at a position with a speed are as many as the     *)
(* ants it found with that speed that their own advance brings to that      *)
(* position, when it is on the rod, however the ants have crossed or tied;  *)
(* ant_step, the drawer and the arguments are left as they were.            *)
(***************************************************************************)
Speeds == {One, 0 - One}

C17_SpeedsKept ==
    [][pc = "step" =>
        /\ ant_step' = ant_step /\ args' = args /\ ant_vec' = ant_vec
        /\ time' = time + 1
        /\ \A i \in 1..Len(ants) : ants[i].speed \in Speeds
        /\ \A i \in 1..Len(ants') : ants'[i].speed \in Speeds
        /\ \A v \in Speeds :
           \A p \in PositionsOf(ants') \cup PositionsOf(Advance(ants, ant_step)) :
              CountAt(ants', p, v) =
                IF OnRod(p)
                THEN Cardinality({j \in 1..Len(ants) :
                        /\ ants[j].speed = v
                        /\ FAdd(ants[j].position, FMul(v, ant_step)) = p})
                ELSE 0]_vars

\* three ants placed regularly, and after a step a left-going ant stands
\* left of a right-going one: the two have crossed, and both are still there
C17_Witness ==
    /\ JustStepped /\ args.regular /\ args.ant_count = 3 /\ Len(ants) = 3
    /\ ants[2].speed = 0 - One /\ ants[3].speed = One
    /\ ants[2].position < ants[3].position

(***************************************************************************)
(* C18: in a step the type at every index is, once the ants are sorted and  *)
(* the types put back, the type that was at that index before; so the types *)
(* a step leaves are the types it found without those of the ants removed   *)
(* from the front and from the end, and Molly, while she is left, is at the *)
(* index she had less the number of ants removed from the front.            *)
(***************************************************************************)
\* the ants of s that a step of this size takes below 0
FrontRemoved(s, step) ==
    Cardinality({j \in 1..Len(s) :
        FLt(FAdd(s[j].position, FMul(s[j].speed, step)), 0)})

C18_TypesKeepIndex ==
    [][pc = "step" =>
        LET moved == SortRetainTypes(Advance(ants, ant_step))
            front == FrontRemoved(ants, ant_step)
        IN  /\ Len(moved) = Len(ants)
            /\ \A i \in 1..Len(ants) : moved[i].typ = ants[i].typ
            /\ \A i \in 1..Len(ants') : ants'[i].typ = ants[i + front].typ
            /\ MollyCount(ants') = 1 =>
                  /\ MollyCount(ants) = 1
                  /\ MollyIndex(ants') = MollyIndex(ants) - front]_vars

\* of two ants the first has left at the front and Molly, who was second, is
\* now first
C18_Witness ==
    /\ JustStepped /\ time = 1 /\ ~args.regular
    /\ args.ant_count = 2 /\ args.molly_index = 1
    /\ Len(ants) = 1 /\ ants[1].typ = "Molly"

(***************************************************************************)
(* C19: for a positive step size the ants left after t steps are as many as *)
(* the ants from_args placed whose own straight line, initial position +    *)
(* k * speed * step, is in [0, 1) at every tick k <= t; so has_ants turns   *)
(* false at the last of the ticks at which a line leaves the rod.  Stated   *)
(* where the arguments tell the ants from_args placed, in regular mode.     *)
(***************************************************************************)
\* a's position after k ticks on its straight line, computed exactly
StraightAt(a, step, k) == a.position + k * (a.speed \div One) * step

StraightOnRod(a, step, t) ==
    \A k \in 1..t : StraightAt(a, step, k) >= 0 /\ StraightAt(a, step, k) < One

C19_LeftByStraightLine ==
    JustStepped /\ args.regular /\ FLt(0, ant_step) =>
        Len(ants) =
            Cardinality({j \in 1..args.ant_count :
                StraightOnRod(RegularAnts(args.ant_count)[j], ant_step, time)})

\* a's position after k ticks on its own, each tick added as step adds it
RECURSIVE AloneAt(_, _, _)
AloneAt(a, step, k) ==
    IF k = 0 THEN a.position
    ELSE FAdd(AloneAt(a, step, k - 1), FMul(a.speed, step))

AloneOnRod(a, step, t) == \A k \in 1..t : OnRod(AloneAt(a, step, k))

\* C19, what holds: the same with each ant's line computed as step computes
\* it, one rounded addition a tick, for every step size
C19_LeftByOwnAdditions ==
    JustStepped /\ args.regular =>
        Len(ants) =
            Cardinality({j \in 1..args.ant_count :
                AloneOnRod(RegularAnts(args.ant_count)[j], ant_step, time)})

(***************************************************************************)
(* C20: on every state main draws, the first and the one after each step,   *)
(* the cell computed for each ant, (position * resolution) as usize, is     *)
(* below the resolution: the indexing of Drawer::draw does not panic.       *)
(***************************************************************************)
C20_DrawInRange ==
    /\ pc # "panic"
    /\ pc = "draw" =>
          \A i \in 1..Len(ants) : Cell(ants[i], Len(ant_vec)) < Len(ant_vec)

\* C20, what holds: the same on every state a step leaves, for every number
\* of cells from 1 to 2 * One and not only the resolution of the run
C20_DrawInRangeAfterStep ==
    JustStepped =>
        \A len \in 1..(2 * One) :
            \A i \in 1..Len(ants) : Cell(ants[i], len) < len

=============================================================================
